---- MODULE Spec2Model ----
(***************************************************************************)
(* Model of backscrub (deepseg.cc, loopback.cc).                           *)
(*                                                                         *)
(* The mask engine (class CalcMask): one worker thread running             *)
(* CalcMask::run and the orchestrator thread calling set_input_frame,      *)
(* get_output_mask and finally the destructor (Spec, FairSpec,             *)
(* RunningSpec).  A frame is represented by its submission index (1, 2,    *)
(* ...); 0 is the empty cv::Mat a slot holds before anything was copied    *)
(* into it.  A mask is the pair <<frame it was computed from, number of    *)
(* the inference that produced it>>.                                       *)
(*                                                                         *)
(* The virtual device's life cycle (DeviceSpec), alpha_blend (BlendSpec),  *)
(* convert_rgb_to_yuyv (PackSpec), main()'s geometry options               *)
(* (GeometrySpec) and main()'s main loop (LoopSpec) each have their own    *)
(* specification over the same variables; the variables a specification    *)
(* does not use keep their idle values.                                    *)
(***************************************************************************)
EXTENDS Integers, Sequences, FiniteSets, TLC

\* number of set_input_frame calls explored
MaxFrames == 3

\* the two buffers behind each pointer pair (frame1/frame2, mask1/mask2)
Slots == {1, 2}

\* content of a default-constructed cv::Mat frame slot
EmptyFrame == 0

\* content of a default-constructed cv::Mat mask slot
EmptyMask == <<0, 0>>

\* content of the caller's mask buffer before the first successful fetch
CallerMask == <<0, -1>>

VARIABLES
    state,          \* volatile thread_state: "RUNNING" or "DONE"
    maskctx,        \* inference context: "live" or "deleted"
    new_frame,      \* pending flag of the input mailbox
    new_mask,       \* ready flag of the output mailbox
    frame_next,     \* slot set_input_frame writes
    frame_current,  \* slot the worker runs inference on
    mask_current,   \* slot the worker writes the result to
    mask_out,       \* slot get_output_mask reads
    frames,         \* content of frame1, frame2
    masks,          \* content of mask1, mask2
    lock_frame,     \* owner of the input mailbox mutex
    lock_mask,      \* owner of the output mailbox mutex
    wpc,            \* position of the worker thread in run()
    mpc,            \* position of the orchestrator thread
    out,            \* the caller's mask buffer (main's "mask")
    submitted,      \* history: number of frames passed to set_input_frame
    inferred,       \* history: frames bs_maskgen_process was called on
    completed,      \* history: number of inference calls that returned success
    fetched,        \* history: masks copied out by get_output_mask
    dropped,        \* history: frames overwritten while still pending
    unguarded,      \* history: accesses to mailbox state made without its lock
    last_fetch,     \* history: outcome of the last get_output_mask call
    woke_done,      \* history: the worker left the wait with state = DONE
    \* main()'s handling of the virtual device, and loopback.cc
    ppc,            \* position of main() in the device's life cycle
    fdwr,           \* the device's file descriptor: "none", "open" or "closed"
    streaming,      \* the device is streaming (STREAMON done, no STREAMOFF since)
    lbfd,           \* value returned by loopback_init (0: not returned yet)
    syscalls,       \* history: device calls made by loopback.cc, with success
    thread,         \* the CalcMask worker as main() sees it
    framesize,      \* bytes of the frame still to be written
    sent,           \* history: bytes of the current frame accepted by the device
    ticks,          \* history: frames written completely
    \* alpha_blend
    bg,             \* main's background image, 3 bytes per pixel
    raw,            \* main's foreground frame raw[idx], 3 bytes per pixel
    mask,           \* main's mask, 1 byte per pixel
    blended,        \* result of alpha_blend(bg, raw[idx], mask) ("none" before the call)
    \* convert_rgb_to_yuyv, after cv::cvtColor and cv::split
    ydata,          \* luma plane (yuv[0])
    udata,          \* first chroma plane (yuv[1])
    vdata,          \* second chroma plane (yuv[2])
    yuyv,           \* result of convert_rgb_to_yuyv ("none" before the call)
    \* main()'s geometry options
    gpc,            \* position of main() in option parsing and geometry set-up
    width,          \* -w
    height,         \* -h
    setWorH,        \* -w or -h was given
    capGeo,         \* capture geometry, <<w, h>> or None
    vidGeo,         \* virtual camera geometry, <<w, h>> or None
    nargs,          \* history: number of geometry options parsed
    \* main()'s main loop
    lpc,            \* position of main() in the main loop
    fps,            \* frame rate the capture device reports
    maxFps,         \* --max-fps (0: not given)
    fpsDivisor,     \* the throttle's divisor
    skip,           \* the throttle's counter
    idx,            \* index of the buffer in use
    rawbuf,         \* cv::Mat raw[2]
    sendPrevious,   \* --video-delayed
    s_backg,        \* a background was specified and its path resolved
    pbk,            \* the background is loaded
    blur_strength,  \* blur strength (0: none)
    crop_region,    \* cv::Rect crop_region
    bgframe,        \* content of main's bg
    curmask,        \* content of main's mask: tick of the last mask fetched
    ticklog,        \* history: outcome of every capture tick
    events,         \* history: what the current tick did, in order
    submits,        \* history: the frames passed to set_input_frame
    shown,          \* history: the frames passed to alpha_blend as foreground
    garbled         \* history: the device got bytes that are not the frame's

\* the variables of CalcMask
engine == <<state, maskctx, new_frame, new_mask, frame_next, frame_current,
            mask_current, mask_out, frames, masks, lock_frame, lock_mask,
            wpc, mpc, out, submitted, inferred, completed, fetched, dropped,
            unguarded, last_fetch, woke_done>>

\* the variables of the device life cycle
device == <<ppc, fdwr, streaming, lbfd, syscalls, thread, framesize, sent, ticks>>

\* the variables of alpha_blend
blend == <<bg, raw, mask, blended>>

\* the variables of convert_rgb_to_yuyv
pack == <<ydata, udata, vdata, yuyv>>

\* the variables of the geometry options
geometry == <<gpc, width, height, setWorH, capGeo, vidGeo, nargs>>

\* the variables of the main loop
loop == <<lpc, fps, maxFps, fpsDivisor, skip, idx, rawbuf, sendPrevious, s_backg,
          pbk, blur_strength, crop_region, bgframe, curmask, ticklog, events,
          submits, shown, garbled>>

\* everything CalcMask does not touch
others == <<device, blend, pack, geometry, loop>>

vars == <<engine, device, blend, pack, geometry, loop>>

hist == <<submitted, inferred, completed, fetched, dropped, last_fetch, woke_done>>

ptrs == <<frame_next, frame_current, mask_current, mask_out>>

\* the accesses a thread makes to a variable while not owning its mutex
Access(who, var, lock) == IF lock = who THEN {} ELSE {<<who, var>>}

\* condition_new_frame.notify_all(): a thread blocked in wait() becomes runnable
notify_all(pc) == IF pc = "waiting" THEN "woken" ELSE pc

\* exit(1) in the worker ends the process; until it has ended (wpc = "failed")
\* the orchestrator thread goes on running
Alive == wpc # "failed"

Range(s) == {s[i] : i \in 1..Len(s)}

\* CalcMask::CalcMask
CalcMask_Init ==
    /\ state = "RUNNING"
    /\ maskctx = "live"
    /\ new_frame = FALSE
    /\ new_mask = FALSE
    /\ frame_next = 1
    /\ frame_current = 2
    /\ mask_current = 1
    /\ mask_out = 2
    /\ frames = [s \in Slots |-> EmptyFrame]
    /\ masks = [s \in Slots |-> EmptyMask]
    /\ lock_frame = "free"
    /\ lock_mask = "free"
    /\ wpc = "check"
    /\ mpc = "idle"
    /\ out = CallerMask
    /\ submitted = 0
    /\ inferred = <<>>
    /\ completed = 0
    /\ fetched = <<>>
    /\ dropped = {}
    /\ unguarded = {}
    /\ last_fetch = "none"
    /\ woke_done = FALSE

(***************************************************************************)
(* The worker thread: CalcMask::run                                        *)
(***************************************************************************)

\* while(thread_state::RUNNING == this->state)
run_check ==
    /\ wpc = "check"
    /\ wpc' = IF state = "RUNNING" THEN "lock_frame" ELSE "exited"
    /\ UNCHANGED <<others, state, maskctx, new_frame, new_mask, ptrs, frames, masks,
                   lock_frame, lock_mask, mpc, out, hist, unguarded>>

\* std::unique_lock<std::mutex> hold(lock_frame)
run_lock_frame ==
    /\ wpc = "lock_frame"
    /\ lock_frame = "free"
    /\ lock_frame' = "worker"
    /\ wpc' = "test"
    /\ UNCHANGED <<others, state, maskctx, new_frame, new_mask, ptrs, frames, masks,
                   lock_mask, mpc, out, hist, unguarded>>

\* while (!new_frame)
run_test ==
    /\ wpc = "test"
    /\ wpc' = IF new_frame THEN "swap" ELSE "wait"
    /\ unguarded' = unguarded \cup Access("worker", "new_frame", lock_frame)
    /\ UNCHANGED <<others, state, maskctx, new_frame, new_mask, ptrs, frames, masks,
                   lock_frame, lock_mask, mpc, out, hist>>

\* mutation of run_wait: the worker blocks without releasing lock_frame
run_wait_holding ==
    /\ wpc = "wait"
    /\ wpc' = "waiting"
    /\ UNCHANGED <<others, state, maskctx, new_frame, new_mask, ptrs, frames, masks,
                   lock_frame, lock_mask, mpc, out, hist, unguarded>>

\* condition_new_frame.wait(hold): release the mutex and block, atomically
run_wait ==
    /\ wpc = "wait"
    /\ lock_frame' = "free"
    /\ wpc' = "waiting"
    /\ UNCHANGED <<others, state, maskctx, new_frame, new_mask, ptrs, frames, masks,
                   lock_mask, mpc, out, hist, unguarded>>

\* a spurious wake-up, which condition_variable::wait permits
run_spurious ==
    /\ wpc = "waiting"
    /\ wpc' = "woken"
    /\ UNCHANGED <<others, state, maskctx, new_frame, new_mask, ptrs, frames, masks,
                   lock_frame, lock_mask, mpc, out, hist, unguarded>>

\* wait() re-acquires the mutex before it returns
run_reacquire ==
    /\ wpc = "woken"
    /\ lock_frame = "free"
    /\ lock_frame' = "worker"
    /\ wpc' = "test"
    /\ woke_done' = (woke_done \/ state = "DONE")
    /\ UNCHANGED <<others, state, maskctx, new_frame, new_mask, ptrs, frames, masks,
                   lock_mask, mpc, out, submitted, inferred, completed,
                   fetched, dropped, last_fetch, unguarded>>

\* mutation of run_swap: the pending flag is not cleared
run_swap_keeps_flag ==
    /\ wpc = "swap"
    /\ frame_next' = frame_current
    /\ frame_current' = frame_next
    /\ unguarded' = unguarded \cup Access("worker", "frame_next", lock_frame)
                              \cup Access("worker", "frame_current", lock_frame)
    /\ lock_frame' = "free"
    /\ wpc' = "infer_call"
    /\ UNCHANGED <<others, state, maskctx, new_frame, new_mask, mask_current, mask_out,
                   frames, masks, lock_mask, mpc, out, hist>>

\* mutation of run_swap: the exchange is written without the temporary
run_swap_no_tmp ==
    /\ wpc = "swap"
    /\ new_frame' = FALSE
    /\ frame_next' = frame_current
    /\ frame_current' = frame_current
    /\ unguarded' = unguarded \cup Access("worker", "new_frame", lock_frame)
                              \cup Access("worker", "frame_next", lock_frame)
                              \cup Access("worker", "frame_current", lock_frame)
    /\ lock_frame' = "free"
    /\ wpc' = "infer_call"
    /\ UNCHANGED <<others, state, maskctx, new_mask, mask_current, mask_out, frames,
                   masks, lock_mask, mpc, out, hist>>

\* new_frame = false; swap frame_next and frame_current; the block ends
run_swap ==
    /\ wpc = "swap"
    /\ new_frame' = FALSE
    /\ frame_next' = frame_current
    /\ frame_current' = frame_next
    /\ unguarded' = unguarded \cup Access("worker", "new_frame", lock_frame)
                              \cup Access("worker", "frame_next", lock_frame)
                              \cup Access("worker", "frame_current", lock_frame)
    /\ lock_frame' = "free"
    /\ wpc' = "infer_call"
    /\ UNCHANGED <<others, state, maskctx, new_mask, mask_current, mask_out, frames,
                   masks, lock_mask, mpc, out, hist>>

\* bs_maskgen_process(maskctx, *frame_current, *mask_current) is entered
run_infer_call ==
    /\ wpc = "infer_call"
    /\ inferred' = Append(inferred, frames[frame_current])
    /\ unguarded' = unguarded \cup Access("worker", "frame_current", lock_frame)
                              \cup Access("worker", "mask_current", lock_mask)
    /\ wpc' = "infer_run"
    /\ UNCHANGED <<others, state, maskctx, new_frame, new_mask, ptrs, frames, masks,
                   lock_frame, lock_mask, mpc, out, submitted, completed,
                   fetched, dropped, last_fetch, woke_done>>

\* bs_maskgen_process returns: the mask is in *mask_current, or exit(1)
run_infer_return ==
    /\ wpc = "infer_run"
    /\ \E ok \in BOOLEAN :
         IF ok
           THEN /\ masks' = [masks EXCEPT ![mask_current] =
                                <<frames[frame_current], completed + 1>>]
                /\ completed' = completed + 1
                /\ wpc' = "lock_mask"
           ELSE /\ wpc' = "exiting"
                /\ UNCHANGED <<masks, completed>>
    /\ UNCHANGED <<others, state, maskctx, new_frame, new_mask, ptrs, frames,
                   lock_frame, lock_mask, mpc, out, submitted, inferred,
                   fetched, dropped, last_fetch, woke_done, unguarded>>

\* std::unique_lock<std::mutex> hold(lock_mask)
run_lock_mask ==
    /\ wpc = "lock_mask"
    /\ lock_mask = "free"
    /\ lock_mask' = "worker"
    /\ wpc' = "publish"
    /\ UNCHANGED <<others, state, maskctx, new_frame, new_mask, ptrs, frames, masks,
                   lock_frame, mpc, out, hist, unguarded>>

\* mutation of run_publish: the ready flag is set but the slots are not exchanged
run_publish_no_swap ==
    /\ wpc = "publish"
    /\ new_mask' = TRUE
    /\ unguarded' = unguarded \cup Access("worker", "new_mask", lock_mask)
    /\ wpc' = "end_iter"
    /\ UNCHANGED <<others, state, maskctx, new_frame, ptrs, frames, masks, lock_frame,
                   lock_mask, mpc, out, hist>>

\* swap mask_out and mask_current; new_mask = true
run_publish ==
    /\ wpc = "publish"
    /\ mask_out' = mask_current
    /\ mask_current' = mask_out
    /\ new_mask' = TRUE
    /\ unguarded' = unguarded \cup Access("worker", "new_mask", lock_mask)
                              \cup Access("worker", "mask_out", lock_mask)
                              \cup Access("worker", "mask_current", lock_mask)
    /\ wpc' = "end_iter"
    /\ UNCHANGED <<others, state, maskctx, new_frame, frame_next, frame_current,
                   frames, masks, lock_frame, lock_mask, mpc, out, hist>>

\* mutation of run_end_iter: lock_mask is still owned when the loop comes round
run_end_iter_holding ==
    /\ wpc = "end_iter"
    /\ wpc' = "check"
    /\ UNCHANGED <<others, state, maskctx, new_frame, new_mask, ptrs, frames, masks,
                   lock_frame, lock_mask, mpc, out, hist, unguarded>>

\* end of the loop body: the unique_lock on lock_mask goes out of scope
run_end_iter ==
    /\ wpc = "end_iter"
    /\ lock_mask' = "free"
    /\ wpc' = "check"
    /\ UNCHANGED <<others, state, maskctx, new_frame, new_mask, ptrs, frames, masks,
                   lock_frame, mpc, out, hist, unguarded>>

\* exit(1) has run the exit handlers: the process ends, with every thread
run_exit ==
    /\ wpc = "exiting"
    /\ wpc' = "failed"
    /\ UNCHANGED <<others, state, maskctx, new_frame, new_mask, ptrs, frames, masks,
                   lock_frame, lock_mask, mpc, out, hist, unguarded>>

run ==
    \/ run_check
    \/ run_lock_frame
    \/ run_test
    \/ run_wait
    \/ run_reacquire
    \/ run_swap
    \/ run_infer_call
    \/ run_infer_return
    \/ run_exit
    \/ run_lock_mask
    \/ run_publish
    \/ run_end_iter

(***************************************************************************)
(* The orchestrator thread                                                 *)
(***************************************************************************)

\* set_input_frame: std::lock_guard<std::mutex> hold(lock_frame)
set_input_frame_lock ==
    /\ Alive
    /\ mpc = "idle"
    /\ submitted < MaxFrames
    /\ lock_frame = "free"
    /\ lock_frame' = "main"
    /\ mpc' = "submit_locked"
    /\ UNCHANGED <<others, state, maskctx, new_frame, new_mask, ptrs, frames, masks,
                   lock_mask, wpc, out, hist, unguarded>>

\* mutation of set_input_frame: the worker is not notified
set_input_frame_no_notify ==
    /\ Alive
    /\ mpc = "submit_locked"
    /\ frames' = [frames EXCEPT ![frame_next] = submitted + 1]
    /\ submitted' = submitted + 1
    /\ dropped' = IF new_frame THEN dropped \cup {frames[frame_next]} ELSE dropped
    /\ new_frame' = TRUE
    /\ unguarded' = unguarded \cup Access("main", "frame_next", lock_frame)
                              \cup Access("main", "new_frame", lock_frame)
    /\ lock_frame' = "free"
    /\ mpc' = "idle"
    /\ UNCHANGED <<others, state, maskctx, new_mask, ptrs, masks, lock_mask, wpc, out,
                   inferred, completed, fetched, last_fetch, woke_done>>

\* *frame_next = frame.clone(); new_frame = true; notify_all(); unlock
set_input_frame ==
    /\ Alive
    /\ mpc = "submit_locked"
    /\ frames' = [frames EXCEPT ![frame_next] = submitted + 1]
    /\ submitted' = submitted + 1
    /\ dropped' = IF new_frame THEN dropped \cup {frames[frame_next]} ELSE dropped
    /\ new_frame' = TRUE
    /\ unguarded' = unguarded \cup Access("main", "frame_next", lock_frame)
                              \cup Access("main", "new_frame", lock_frame)
    /\ wpc' = notify_all(wpc)
    /\ lock_frame' = "free"
    /\ mpc' = "idle"
    /\ UNCHANGED <<others, state, maskctx, new_mask, ptrs, masks, lock_mask, out,
                   inferred, completed, fetched, last_fetch, woke_done>>

\* get_output_mask: if (new_mask)
get_output_mask_test ==
    /\ Alive
    /\ mpc = "idle"
    /\ unguarded' = unguarded \cup Access("main", "new_mask", lock_mask)
    /\ IF new_mask
         THEN /\ mpc' = "fetch_lock"
              /\ UNCHANGED last_fetch
         ELSE /\ mpc' = "idle"
              /\ last_fetch' = "miss"
    /\ UNCHANGED <<others, state, maskctx, new_frame, new_mask, ptrs, frames, masks,
                   lock_frame, lock_mask, wpc, out, submitted, inferred,
                   completed, fetched, dropped, woke_done>>

\* get_output_mask: std::lock_guard<std::mutex> hold(lock_mask)
get_output_mask_lock ==
    /\ Alive
    /\ mpc = "fetch_lock"
    /\ lock_mask = "free"
    /\ lock_mask' = "main"
    /\ mpc' = "fetch_locked"
    /\ UNCHANGED <<others, state, maskctx, new_frame, new_mask, ptrs, frames, masks,
                   lock_frame, wpc, out, hist, unguarded>>

\* mutation of get_output_mask: the ready flag is not cleared
get_output_mask_keeps_flag ==
    /\ Alive
    /\ mpc = "fetch_locked"
    /\ out' = masks[mask_out]
    /\ unguarded' = unguarded \cup Access("main", "mask_out", lock_mask)
    /\ fetched' = Append(fetched, masks[mask_out])
    /\ last_fetch' = "hit"
    /\ lock_mask' = "free"
    /\ mpc' = "idle"
    /\ UNCHANGED <<others, state, maskctx, new_frame, new_mask, ptrs, frames, masks,
                   lock_frame, wpc, submitted, inferred, completed, dropped,
                   woke_done>>

\* out = mask_out->clone(); new_mask = false; unlock
get_output_mask ==
    /\ Alive
    /\ mpc = "fetch_locked"
    /\ out' = masks[mask_out]
    /\ new_mask' = FALSE
    /\ unguarded' = unguarded \cup Access("main", "mask_out", lock_mask)
                              \cup Access("main", "new_mask", lock_mask)
    /\ fetched' = Append(fetched, masks[mask_out])
    /\ last_fetch' = "hit"
    /\ lock_mask' = "free"
    /\ mpc' = "idle"
    /\ UNCHANGED <<others, state, maskctx, new_frame, ptrs, frames, masks, lock_frame,
                   wpc, submitted, inferred, completed, dropped, woke_done>>

\* ~CalcMask: state = thread_state::DONE
dtor_state ==
    /\ Alive
    /\ mpc = "idle"
    /\ state' = "DONE"
    /\ mpc' = "dtor_flag"
    /\ UNCHANGED <<others, maskctx, new_frame, new_mask, ptrs, frames, masks,
                   lock_frame, lock_mask, wpc, out, hist, unguarded>>

\* ~CalcMask: new_frame = true
dtor_flag ==
    /\ Alive
    /\ mpc = "dtor_flag"
    /\ new_frame' = TRUE
    /\ unguarded' = unguarded \cup Access("main", "new_frame", lock_frame)
    /\ mpc' = "dtor_notify"
    /\ UNCHANGED <<others, state, maskctx, new_mask, ptrs, frames, masks, lock_frame,
                   lock_mask, wpc, out, hist>>

\* ~CalcMask: condition_new_frame.notify_all()
dtor_notify ==
    /\ Alive
    /\ mpc = "dtor_notify"
    /\ wpc' = notify_all(wpc)
    /\ mpc' = "dtor_join"
    /\ UNCHANGED <<others, state, maskctx, new_frame, new_mask, ptrs, frames, masks,
                   lock_frame, lock_mask, out, hist, unguarded>>

\* mutation of dtor_join: the destructor goes on without waiting for the worker
dtor_join_no_wait ==
    /\ Alive
    /\ mpc = "dtor_join"
    /\ mpc' = "dtor_delete"
    /\ UNCHANGED <<others, state, maskctx, new_frame, new_mask, ptrs, frames, masks,
                   lock_frame, lock_mask, wpc, out, hist, unguarded>>

\* ~CalcMask: thread.join()
dtor_join ==
    /\ Alive
    /\ mpc = "dtor_join"
    /\ wpc = "exited"
    /\ mpc' = "dtor_delete"
    /\ UNCHANGED <<others, state, maskctx, new_frame, new_mask, ptrs, frames, masks,
                   lock_frame, lock_mask, wpc, out, hist, unguarded>>

\* ~CalcMask: bs_maskgen_delete(maskctx)
dtor_delete ==
    /\ Alive
    /\ mpc = "dtor_delete"
    /\ maskctx' = "deleted"
    /\ mpc' = "destroyed"
    /\ UNCHANGED <<others, state, new_frame, new_mask, ptrs, frames, masks,
                   lock_frame, lock_mask, wpc, out, hist, unguarded>>

dtor ==
    \/ dtor_state
    \/ dtor_flag
    \/ dtor_notify
    \/ dtor_join
    \/ dtor_delete

(***************************************************************************)
(* Initial states                                                          *)
(***************************************************************************)

\* std::optional without a value
None == <<>>

\* main() has not reached the virtual device
DeviceIdle ==
    /\ ppc = "off"
    /\ fdwr = "none"
    /\ streaming = FALSE
    /\ lbfd = 0
    /\ syscalls = <<>>
    /\ thread = "none"
    /\ framesize = 0
    /\ sent = <<>>
    /\ ticks = 0

\* alpha_blend is not in use
BlendIdle ==
    /\ bg = <<>>
    /\ raw = <<>>
    /\ mask = <<>>
    /\ blended = "none"

\* convert_rgb_to_yuyv is not in use
PackIdle ==
    /\ ydata = <<>>
    /\ udata = <<>>
    /\ vdata = <<>>
    /\ yuyv = "none"

\* main()'s locals before the options are parsed
GeometryDefaults ==
    /\ width = 640
    /\ height = 480
    /\ setWorH = FALSE
    /\ capGeo = None
    /\ vidGeo = None
    /\ nargs = 0

\* option parsing is not in use
GeometryIdle ==
    /\ gpc = "off"
    /\ GeometryDefaults

\* an empty cv::Mat
NoFrame == [id |-> 0, cols |-> 0, rows |-> 0, stage |-> "empty"]

\* cv::Scalar(0, 255, 0) at the output geometry
Green == [src |-> "green", of |-> 0, blurred |-> FALSE]

\* main()'s locals before the main loop
LoopDefaults ==
    /\ skip = 0
    /\ idx = 0
    /\ rawbuf = [i \in {0, 1} |-> NoFrame]
    /\ bgframe = Green
    /\ curmask = 0
    /\ ticklog = <<>>
    /\ events = <<>>
    /\ submits = <<>>
    /\ shown = <<>>
    /\ garbled = FALSE

\* the main loop is not in use
LoopIdle ==
    /\ lpc = "off"
    /\ fps = 0
    /\ maxFps = 0
    /\ fpsDivisor = 1
    /\ sendPrevious = FALSE
    /\ s_backg = FALSE
    /\ pbk = FALSE
    /\ blur_strength = 0
    /\ crop_region = [x |-> 0, y |-> 0, width |-> 0, height |-> 0]
    /\ LoopDefaults

Init ==
    /\ CalcMask_Init
    /\ DeviceIdle
    /\ BlendIdle
    /\ PackIdle
    /\ GeometryIdle
    /\ LoopIdle

Next ==
    \/ run
    \/ run_spurious
    \/ set_input_frame_lock
    \/ set_input_frame
    \/ get_output_mask_test
    \/ get_output_mask_lock
    \/ get_output_mask
    \/ dtor

Spec == Init /\ [][Next]_vars

\* scheduling: a runnable thread eventually runs; a spurious wake-up and a
\* further call by the orchestrator are never owed
FairSpec ==
    /\ Init
    /\ [][Next]_vars
    /\ WF_vars(run)
    /\ WF_vars(dtor)
    /\ WF_vars(set_input_frame)
    /\ WF_vars(get_output_mask_lock)
    /\ WF_vars(get_output_mask)

\* the engine while it is RUNNING: the destructor is not called
RunningNext ==
    \/ run
    \/ run_spurious
    \/ set_input_frame_lock
    \/ set_input_frame
    \/ get_output_mask_test
    \/ get_output_mask_lock
    \/ get_output_mask

\* scheduling while RUNNING: a runnable thread eventually runs and a call the
\* orchestrator has begun completes; spurious wake-ups and further calls by
\* the orchestrator are never owed
RunningSpec ==
    /\ Init
    /\ [][RunningNext]_vars
    /\ WF_vars(run)
    /\ WF_vars(set_input_frame)
    /\ WF_vars(get_output_mask_lock)
    /\ WF_vars(get_output_mask)

(***************************************************************************)
(* The virtual device: loopback_init, main()'s write loop, the fatal       *)
(* paths of main() and of the worker, and loopback_free                    *)
(***************************************************************************)

\* bytes in one frame of the device (raw[idx].step[0]*raw[idx].rows)
FrameBytes == 4

\* number of frames written
MaxTicks == 2

\* the descriptor number open() returns
Fd == 3

\* the bytes of the frame to write (raw[idx].data), each one different
FrameData == [i \in 1..FrameBytes |-> i]

\* everything the device model does not touch
notDevice == <<engine, blend, pack, geometry, loop>>

\* main() is about to call loopback_init
DeviceInit ==
    /\ CalcMask_Init
    /\ BlendIdle
    /\ PackIdle
    /\ GeometryIdle
    /\ LoopIdle
    /\ ppc = "init_open"
    /\ fdwr = "none"
    /\ streaming = FALSE
    /\ lbfd = 0
    /\ syscalls = <<>>
    /\ thread = "none"
    /\ framesize = 0
    /\ sent = <<>>
    /\ ticks = 0

\* loopback_init: open(device, O_RDWR|O_CLOEXEC)
loopback_init_open ==
    /\ ppc = "init_open"
    /\ \E ok \in BOOLEAN :
         /\ syscalls' = Append(syscalls, <<"open", ok>>)
         /\ IF ok
              THEN /\ fdwr' = "open"
                   /\ ppc' = "init_querycap"
                   /\ UNCHANGED lbfd
              ELSE /\ lbfd' = -1
                   /\ ppc' = "init_ret"
                   /\ UNCHANGED fdwr
    /\ UNCHANGED <<notDevice, streaming, thread, framesize, sent, ticks>>

\* loopback_init: ioctl(fdwr, VIDIOC_QUERYCAP)
loopback_init_querycap ==
    /\ ppc = "init_querycap"
    /\ \E ok \in BOOLEAN :
         IF ok
           THEN /\ syscalls' = Append(syscalls, <<"QUERYCAP", TRUE>>)
                /\ ppc' = "init_sfmt"
                /\ UNCHANGED <<fdwr, lbfd>>
           ELSE /\ syscalls' = syscalls \o <<<<"QUERYCAP", FALSE>>, <<"close", TRUE>>>>
                /\ fdwr' = "closed"
                /\ lbfd' = -1
                /\ ppc' = "init_ret"
    /\ UNCHANGED <<notDevice, streaming, thread, framesize, sent, ticks>>

\* mutation of loopback_init_sfmt: the failure path returns without close()
loopback_init_sfmt_leak ==
    /\ ppc = "init_sfmt"
    /\ \E ok \in BOOLEAN :
         IF ok
           THEN /\ syscalls' = Append(syscalls, <<"S_FMT", TRUE>>)
                /\ ppc' = "init_streamon"
                /\ UNCHANGED <<fdwr, lbfd>>
           ELSE /\ syscalls' = Append(syscalls, <<"S_FMT", FALSE>>)
                /\ lbfd' = -1
                /\ ppc' = "init_ret"
                /\ UNCHANGED fdwr
    /\ UNCHANGED <<notDevice, streaming, thread, framesize, sent, ticks>>

\* loopback_init: ioctl(fdwr, VIDIOC_S_FMT)
loopback_init_sfmt ==
    /\ ppc = "init_sfmt"
    /\ \E ok \in BOOLEAN :
         IF ok
           THEN /\ syscalls' = Append(syscalls, <<"S_FMT", TRUE>>)
                /\ ppc' = "init_streamon"
                /\ UNCHANGED <<fdwr, lbfd>>
           ELSE /\ syscalls' = syscalls \o <<<<"S_FMT", FALSE>>, <<"close", TRUE>>>>
                /\ fdwr' = "closed"
                /\ lbfd' = -1
                /\ ppc' = "init_ret"
    /\ UNCHANGED <<notDevice, streaming, thread, framesize, sent, ticks>>

\* loopback_init: ioctl(fdwr, VIDIOC_STREAMON); return fdwr
loopback_init_streamon ==
    /\ ppc = "init_streamon"
    /\ \E ok \in BOOLEAN :
         IF ok
           THEN /\ syscalls' = Append(syscalls, <<"STREAMON", TRUE>>)
                /\ streaming' = TRUE
                /\ lbfd' = Fd
                /\ UNCHANGED fdwr
           ELSE /\ syscalls' = syscalls \o <<<<"STREAMON", FALSE>>, <<"close", TRUE>>>>
                /\ fdwr' = "closed"
                /\ lbfd' = -1
                /\ UNCHANGED streaming
    /\ ppc' = "init_ret"
    /\ UNCHANGED <<notDevice, thread, framesize, sent, ticks>>

\* main: if (lbfd < 0) exit(1); otherwise lbfd_closer is armed
main_check_lbfd ==
    /\ ppc = "init_ret"
    /\ ppc' = IF lbfd < 0 THEN "exited" ELSE "ctor"
    /\ UNCHANGED <<notDevice, fdwr, streaming, lbfd, syscalls, thread,
                   framesize, sent, ticks>>

\* main: CalcMask ai(...): the worker is started, or the constructor throws
main_ctor ==
    /\ ppc = "ctor"
    /\ \E ok \in BOOLEAN :
         IF ok
           THEN thread' = "running" /\ ppc' = "loop"
           ELSE thread' = thread /\ ppc' = "unwind_lbfd"
    /\ UNCHANGED <<notDevice, fdwr, streaming, lbfd, syscalls, framesize,
                   sent, ticks>>

\* main: throw "Failed to read background frame"
main_bg_fail ==
    /\ ppc = "loop"
    /\ ppc' = "unwind_ai"
    /\ UNCHANGED <<notDevice, fdwr, streaming, lbfd, syscalls, thread,
                   framesize, sent, ticks>>

\* main: int framesize = raw[idx].step[0]*raw[idx].rows
main_write_begin ==
    /\ ppc = "loop"
    /\ ticks < MaxTicks
    /\ framesize' = FrameBytes
    /\ sent' = <<>>
    /\ ppc' = "write"
    /\ UNCHANGED <<notDevice, fdwr, streaming, lbfd, syscalls, thread, ticks>>

\* main: ret = write(lbfd, raw[idx].data, framesize); framesize -= ret
main_write ==
    /\ ppc = "write"
    /\ framesize > 0
    /\ \E ret \in -1..framesize :
         IF ret <= 0
           THEN /\ ppc' = "exited"
                /\ UNCHANGED <<framesize, sent>>
           ELSE /\ sent' = sent \o SubSeq(FrameData, 1, ret)
                /\ framesize' = framesize - ret
                /\ UNCHANGED ppc
    /\ UNCHANGED <<notDevice, fdwr, streaming, lbfd, syscalls, thread, ticks>>

\* main: the write loop ends, the next iteration of the main loop begins
main_write_done ==
    /\ ppc = "write"
    /\ framesize = 0
    /\ ticks' = ticks + 1
    /\ ppc' = "loop"
    /\ UNCHANGED <<notDevice, fdwr, streaming, lbfd, syscalls, thread,
                   framesize, sent>>

\* CalcMask::run: bs_maskgen_process fails, the worker calls exit(1)
run_infer_exit ==
    /\ thread = "running"
    /\ ppc \in {"loop", "write", "unwind_ai"}
    /\ thread' = "exiting"
    /\ UNCHANGED <<notDevice, ppc, fdwr, streaming, lbfd, syscalls,
                   framesize, sent, ticks>>

\* exit(1) has run the exit handlers: the process ends, with main()
run_infer_exited ==
    /\ thread = "exiting"
    /\ ppc \in {"loop", "write", "unwind_ai"}
    /\ ppc' = "exited"
    /\ UNCHANGED <<notDevice, fdwr, streaming, lbfd, syscalls, thread,
                   framesize, sent, ticks>>

\* stack unwinding: ~CalcMask stops and joins the worker
unwind_ai ==
    /\ ppc = "unwind_ai"
    /\ thread = "running"
    /\ thread' = "joined"
    /\ ppc' = "unwind_lbfd"
    /\ UNCHANGED <<notDevice, fdwr, streaming, lbfd, syscalls, framesize,
                   sent, ticks>>

\* stack unwinding: lbfd_closer calls loopback_free: ioctl(VIDIOC_STREAMOFF)
loopback_free_streamoff ==
    /\ ppc = "unwind_lbfd"
    /\ \E ok \in BOOLEAN :
         /\ syscalls' = Append(syscalls, <<"STREAMOFF", ok>>)
         /\ IF ok
              THEN streaming' = FALSE /\ ppc' = "free_close"
              ELSE streaming' = streaming /\ ppc' = "free_ret"
    /\ UNCHANGED <<notDevice, fdwr, lbfd, thread, framesize, sent, ticks>>

\* loopback_free: close(fdwr)
loopback_free_close ==
    /\ ppc = "free_close"
    /\ \E ok \in BOOLEAN : syscalls' = Append(syscalls, <<"close", ok>>)
    /\ fdwr' = "closed"
    /\ ppc' = "free_ret"
    /\ UNCHANGED <<notDevice, streaming, lbfd, thread, framesize, sent, ticks>>

\* main: catch(const char* msg) ... return 1
main_return ==
    /\ ppc = "free_ret"
    /\ ppc' = "returned"
    /\ UNCHANGED <<notDevice, fdwr, streaming, lbfd, syscalls, thread,
                   framesize, sent, ticks>>

loopback_init ==
    \/ loopback_init_open
    \/ loopback_init_querycap
    \/ loopback_init_sfmt
    \/ loopback_init_streamon

loopback_free ==
    \/ loopback_free_streamoff
    \/ loopback_free_close

DeviceNext ==
    \/ loopback_init
    \/ main_check_lbfd
    \/ main_ctor
    \/ main_bg_fail
    \/ main_write_begin
    \/ main_write
    \/ main_write_done
    \/ run_infer_exit
    \/ run_infer_exited
    \/ unwind_ai
    \/ loopback_free
    \/ main_return

DeviceSpec == DeviceInit /\ [][DeviceNext]_vars

(***************************************************************************)
(* alpha_blend, as main() calls it                                         *)
(***************************************************************************)

\* number of pixels of the images blended (srca.rows * srca.cols)
NPix == 2

\* colours the pixels of the source images are drawn from
Colours == {<<0, 127, 255>>, <<200, 1, 254>>}

\* an image given pixel by pixel, as cv::Mat lays it out: 3 bytes per pixel
Bytes3(f) == [i \in 1..(3 * NPix) |-> f[((i - 1) \div 3) + 1][((i - 1) % 3) + 1]]

\* the 8UC3 images of NPix pixels
Images == {Bytes3(f) : f \in [1..NPix -> Colours]}

\* the 8UC1 masks of NPix pixels: every constant mask, and every mask that
\* alternates between a value and its complement
Masks ==
    {[p \in 1..NPix |-> m] : m \in 0..255}
        \cup {[p \in 1..NPix |-> IF p % 2 = 1 THEN m ELSE 255 - m] : m \in 0..255}

\* conversion to uint8_t
uint8(x) == x % 256

RECURSIVE blend_round(_, _, _, _, _)
\* mutation of blend_loop: the division rounds to nearest
blend_round(pix, a, b, m, o) ==
    IF pix >= Len(m)
      THEN o
      ELSE LET aw == m[pix + 1]
               bw == 255 - aw
               byte(k) == uint8((a[3 * pix + k] * aw + b[3 * pix + k] * bw + 127) \div 255)
           IN  blend_round(pix + 1, a, b, m, o \o <<byte(1), byte(2), byte(3)>>)

RECURSIVE blend_swapped(_, _, _, _, _)
\* mutation of blend_loop: the weights of the two sources are exchanged
blend_swapped(pix, a, b, m, o) ==
    IF pix >= Len(m)
      THEN o
      ELSE LET bw == m[pix + 1]
               aw == 255 - bw
               byte(k) == uint8((a[3 * pix + k] * aw + b[3 * pix + k] * bw) \div 255)
           IN  blend_swapped(pix + 1, a, b, m, o \o <<byte(1), byte(2), byte(3)>>)

RECURSIVE blend_loop(_, _, _, _, _)
\* alpha_blend: for (pix = 0; pix < npix; ++pix), o being the bytes written
\* through optr so far; mptr advances once, aptr and bptr three times
blend_loop(pix, a, b, m, o) ==
    IF pix >= Len(m)
      THEN o
      ELSE LET aw == m[pix + 1]
               bw == 255 - aw
               byte(k) == uint8((a[3 * pix + k] * aw + b[3 * pix + k] * bw) \div 255)
           IN  blend_loop(pix + 1, a, b, m, o \o <<byte(1), byte(2), byte(3)>>)

\* cv::Mat alpha_blend(cv::Mat srca, cv::Mat srcb, cv::Mat mask)
alpha_blend(srca, srcb, m) == blend_loop(0, srca, srcb, m, <<>>)

\* main() has its background, frame and mask, all of the output geometry
BlendInit ==
    /\ CalcMask_Init
    /\ DeviceIdle
    /\ PackIdle
    /\ GeometryIdle
    /\ LoopIdle
    /\ bg \in Images
    /\ raw \in Images
    /\ mask \in Masks
    /\ blended = "none"

\* main: raw[idx] = alpha_blend(bg, raw[idx], mask)
main_alpha_blend ==
    /\ blended = "none"
    /\ bg # <<>>
    /\ blended' = alpha_blend(bg, raw, mask)
    /\ UNCHANGED <<engine, device, pack, geometry, loop, bg, raw, mask>>

BlendNext == main_alpha_blend

BlendSpec == BlendInit /\ [][BlendNext]_vars

(***************************************************************************)
(* convert_rgb_to_yuyv, from the planes cv::cvtColor and cv::split give    *)
(***************************************************************************)

\* number of pixel pairs of the image (yuyv.total() / 2)
NPairs == 2

\* luma values of a pair of adjacent pixels
LumaPairs == {<<16, 235>>, <<0, 255>>}

\* values of the first chroma plane for a pair of adjacent pixels
ChromaPairsU == {<<0, 1>>, <<1, 2>>, <<254, 255>>, <<255, 255>>, <<7, 7>>}

\* values of the second chroma plane for a pair of adjacent pixels
ChromaPairsV == {<<128, 128>>, <<3, 6>>, <<100, 201>>}

\* a plane given pair by pair, as cv::Mat lays it out: 1 byte per pixel
Plane(f) == [i \in 1..(2 * NPairs) |-> f[((i - 1) \div 2) + 1][((i - 1) % 2) + 1]]

RECURSIVE yuyv_loop_uv(_, _, _, _, _)
\* mutation of yuyv_loop: the two chroma bytes are stored the other way round
yuyv_loop_uv(i, y, u, v, o) ==
    IF i >= Len(y)
      THEN o
      ELSE LET cu == uint8((u[i + 1] + u[i + 2]) \div 2)
               cv == uint8((v[i + 1] + v[i + 2]) \div 2)
           IN  yuyv_loop_uv(i + 2, y, u, v, o \o <<y[i + 1], cu, y[i + 2], cv>>)

RECURSIVE yuyv_loop(_, _, _, _, _)
\* convert_rgb_to_yuyv: for (i = 0; i < yuyv.total(); i += 2), o being the
\* bytes of outdata written so far
yuyv_loop(i, y, u, v, o) ==
    IF i >= Len(y)
      THEN o
      ELSE LET cu == uint8((u[i + 1] + u[i + 2]) \div 2)
               cv == uint8((v[i + 1] + v[i + 2]) \div 2)
           IN  yuyv_loop(i + 2, y, u, v, o \o <<y[i + 1], cv, y[i + 2], cu>>)

\* cv::Mat convert_rgb_to_yuyv(cv::Mat input), after the colour conversion
convert_rgb_to_yuyv(y, u, v) == yuyv_loop(0, y, u, v, <<>>)

\* the three planes of an image of 2 * NPairs pixels
PackInit ==
    /\ CalcMask_Init
    /\ DeviceIdle
    /\ BlendIdle
    /\ GeometryIdle
    /\ LoopIdle
    /\ ydata \in {Plane(f) : f \in [1..NPairs -> LumaPairs]}
    /\ udata \in {Plane(f) : f \in [1..NPairs -> ChromaPairsU]}
    /\ vdata \in {Plane(f) : f \in [1..NPairs -> ChromaPairsV]}
    /\ yuyv = "none"

\* main: raw[idx] = convert_rgb_to_yuyv(raw[idx])
main_convert_rgb_to_yuyv ==
    /\ yuyv = "none"
    /\ ydata # <<>>
    /\ yuyv' = convert_rgb_to_yuyv(ydata, udata, vdata)
    /\ UNCHANGED <<engine, device, blend, geometry, loop, ydata, udata, vdata>>

PackNext == main_convert_rgb_to_yuyv

PackSpec == PackInit /\ [][PackNext]_vars

(***************************************************************************)
(* main(): the geometry options and the geometry given to the device       *)
(***************************************************************************)

\* number of geometry options on the command line
MaxArgs == 2

\* widths and heights used for options and reported by the capture device
Dims == {1, 3, 4, 12}

\* numbers an option can carry
DimArgs == Dims \cup {0}

\* geometries the capture device can report
DevGeos == (Dims \X Dims) \cup {<<640, 480>>}

\* (float)w/h > 2.726 || (float)h/w > 2.726, as exact fractions: the float
\* quotient can differ from the exact one only for ratios within 1e-7 of
\* 2.726, which need a dimension above 1363
Excessive(g) == 1000 * g[1] > 2726 * g[2] \/ 1000 * g[2] > 2726 * g[1]

\* everything the option handling does not touch
notGeometry == <<engine, device, blend, pack, loop>>

\* main() starts parsing its arguments
GeometryInit ==
    /\ CalcMask_Init
    /\ DeviceIdle
    /\ BlendIdle
    /\ PackIdle
    /\ LoopIdle
    /\ gpc = "parse"
    /\ GeometryDefaults

\* main: -w <n>
main_opt_w ==
    /\ gpc = "parse"
    /\ nargs < MaxArgs
    /\ \E n \in DimArgs :
         IF n = 0
           THEN /\ width' = n
                /\ gpc' = "usage"
                /\ UNCHANGED setWorH
           ELSE /\ width' = n + (n % 2)
                /\ setWorH' = TRUE
                /\ UNCHANGED gpc
    /\ nargs' = nargs + 1
    /\ UNCHANGED <<notGeometry, height, capGeo, vidGeo>>

\* main: -h <n>
main_opt_h ==
    /\ gpc = "parse"
    /\ nargs < MaxArgs
    /\ \E n \in DimArgs :
         /\ height' = n
         /\ IF n = 0
              THEN gpc' = "usage" /\ UNCHANGED setWorH
              ELSE setWorH' = TRUE /\ UNCHANGED gpc
    /\ nargs' = nargs + 1
    /\ UNCHANGED <<notGeometry, width, capGeo, vidGeo>>

\* main: --cg <WxH>
main_opt_cg ==
    /\ gpc = "parse"
    /\ nargs < MaxArgs
    /\ \E w \in DimArgs, h \in DimArgs :
         /\ capGeo' = <<w, h>>
         /\ gpc' = IF w < 1 \/ h < 1 THEN "usage" ELSE gpc
    /\ nargs' = nargs + 1
    /\ UNCHANGED <<notGeometry, width, height, setWorH, vidGeo>>

\* main: --vg <WxH>
main_opt_vg ==
    /\ gpc = "parse"
    /\ nargs < MaxArgs
    /\ \E w \in DimArgs, h \in DimArgs :
         IF w < 1 \/ h < 1
           THEN /\ vidGeo' = <<w, h>>
                /\ gpc' = "usage"
           ELSE /\ vidGeo' = <<w + (w % 2), h>>
                /\ UNCHANGED gpc
    /\ nargs' = nargs + 1
    /\ UNCHANGED <<notGeometry, width, height, setWorH, capGeo>>

\* main: the argument loop ends
main_parse_end ==
    /\ gpc = "parse"
    /\ gpc' = "check_aspect"
    /\ UNCHANGED <<notGeometry, width, height, setWorH, capGeo, vidGeo, nargs>>

\* main: if (vidGeo) { aspect ratio above 2.726: usage(...) }
main_check_aspect ==
    /\ gpc = "check_aspect"
    /\ gpc' = IF vidGeo # None /\ Excessive(vidGeo) THEN "usage" ELSE "check_deprecated"
    /\ UNCHANGED <<notGeometry, width, height, setWorH, capGeo, vidGeo, nargs>>

\* main: -w/-h together with --cg/--vg is refused; capGeo defaults to -w/-h
main_check_deprecated ==
    /\ gpc = "check_deprecated"
    /\ IF setWorH /\ (capGeo # None \/ vidGeo # None)
         THEN /\ gpc' = "usage"
              /\ UNCHANGED capGeo
         ELSE /\ gpc' = "cap_open"
              /\ capGeo' = IF capGeo = None THEN <<width, height>> ELSE capGeo
    /\ UNCHANGED <<notGeometry, width, height, setWorH, vidGeo, nargs>>

\* main: the capture device is opened and reports its geometry; capGeo
\* takes it, vidGeo defaults to capGeo; loopback_init(vidGeo) is reached
main_cap_open ==
    /\ gpc = "cap_open"
    /\ \E opened \in BOOLEAN :
         IF opened
           THEN \E tmpGeo \in DevGeos \cup {capGeo} :
                  /\ capGeo' = tmpGeo
                  /\ vidGeo' = IF vidGeo = None THEN tmpGeo ELSE vidGeo
                  /\ gpc' = "device_open"
           ELSE /\ gpc' = "exit"
                /\ UNCHANGED <<capGeo, vidGeo>>
    /\ UNCHANGED <<notGeometry, width, height, setWorH, nargs>>

GeometryNext ==
    \/ main_opt_w
    \/ main_opt_h
    \/ main_opt_cg
    \/ main_opt_vg
    \/ main_parse_end
    \/ main_check_aspect
    \/ main_check_deprecated
    \/ main_cap_open

GeometrySpec == GeometryInit /\ [][GeometryNext]_vars

(***************************************************************************)
(* main(): the main loop, from the capture of a frame to its write         *)
(***************************************************************************)

\* number of capture ticks
MaxCaptures == 4

\* <<frame rate the capture device reports, --max-fps>>; -1 is what the
\* capture reports when the driver cannot tell the rate, 0 is no --max-fps
LoopRates == {<<-1, 2>>, <<0, 3>>, <<5, 0>>, <<60, 25>>, <<5, 3>>}

\* <<capture geometry, virtual camera geometry>>
LoopGeos == {<<<<2, 1>>, <<2, 1>>>>, <<<<3, 1>>, <<2, 1>>>>, <<<<4, 1>>, <<2, 1>>>>,
             <<<<2, 2>>, <<2, 1>>>>, <<<<2, 3>>, <<2, 1>>>>, <<<<4, 2>>, <<2, 1>>>>}

\* -p bgblur:<n> values, odd; 0 is no blur
BlurArgs == {0, 3}

\* C's integer division, which truncates towards zero
cdiv(a, b) == IF a >= 0 THEN a \div b ELSE -((-a) \div b)

\* cv::Rect(0, 0, 0, 0)
NoCrop == [x |-> 0, y |-> 0, width |-> 0, height |-> 0]

\* bs_calc_cropping: the largest centred rectangle of the capture frame with
\* the aspect ratio of the output geometry; the proportionally larger
\* dimension is cropped; empty when the aspect ratios are equal
bs_calc_cropping(cw, ch, vw, vh) ==
    IF cw * vh > ch * vw
      THEN LET w == (ch * vw) \div vh
           IN  [x |-> (cw - w) \div 2, y |-> 0, width |-> w, height |-> ch]
      ELSE IF cw * vh < ch * vw
             THEN LET h == (cw * vh) \div vw
                  IN  [x |-> 0, y |-> (ch - h) \div 2, width |-> cw, height |-> h]
             ELSE NoCrop

\* everything the main loop does not touch
notLoop == <<engine, ppc, fdwr, streaming, lbfd, syscalls, thread, sent, ticks,
             blend, pack, geometry>>

\* the configuration, which the main loop never changes
config == <<fps, maxFps, fpsDivisor, sendPrevious, s_backg, pbk, blur_strength,
            crop_region>>

\* main() enters the main loop: the options are parsed, the capture device
\* has reported its geometry and rate, the background was loaded or not
LoopInit ==
    /\ CalcMask_Init
    /\ DeviceIdle
    /\ BlendIdle
    /\ PackIdle
    /\ gpc = "off"
    /\ width = 640
    /\ height = 480
    /\ setWorH = FALSE
    /\ nargs = 0
    /\ \E g \in LoopGeos : capGeo = g[1] /\ vidGeo = g[2]
    /\ \E r \in LoopRates : fps = r[1] /\ maxFps = r[2]
    /\ fpsDivisor = IF maxFps > 0 THEN cdiv(fps + maxFps - 1, maxFps) ELSE 1
    /\ crop_region = IF capGeo # vidGeo
                       THEN bs_calc_cropping(capGeo[1], capGeo[2], vidGeo[1], vidGeo[2])
                       ELSE NoCrop
    /\ sendPrevious \in BOOLEAN
    /\ s_backg \in BOOLEAN
    /\ pbk \in BOOLEAN
    /\ pbk => s_backg
    /\ blur_strength \in BlurArgs
    /\ lpc = "capture"
    /\ skip = fpsDivisor
    /\ idx = 0
    /\ rawbuf = [i \in {0, 1} |-> NoFrame]
    /\ bgframe = Green
    /\ curmask = 0
    /\ ticklog = <<>>
    /\ events = <<>>
    /\ submits = <<>>
    /\ shown = <<>>
    /\ garbled = FALSE

\* the frame the capture delivers at the next tick
Captured == [id |-> Len(ticklog) + 1, cols |-> capGeo[1], rows |-> capGeo[2],
             stage |-> "captured"]

\* mutation of mainloop_capture: the counter is compared with <=
mainloop_capture_one_more ==
    /\ lpc = "capture"
    /\ Len(ticklog) < MaxCaptures
    /\ events' = <<>>
    /\ \E empty \in BOOLEAN :
         /\ rawbuf' = [rawbuf EXCEPT ![idx] = IF empty THEN NoFrame ELSE Captured]
         /\ IF rawbuf'[idx].rows = 0 \/ rawbuf'[idx].cols = 0
              THEN /\ ticklog' = Append(ticklog, "empty")
                   /\ UNCHANGED <<skip, lpc>>
              ELSE IF skip <= fpsDivisor
                     THEN /\ skip' = skip + 1
                          /\ ticklog' = Append(ticklog, "skipped")
                          /\ UNCHANGED lpc
                     ELSE /\ skip' = 1
                          /\ ticklog' = Append(ticklog, "processed")
                          /\ lpc' = "crop"
    /\ UNCHANGED <<notLoop, framesize, config, idx, bgframe, curmask, submits,
                   shown, garbled>>

\* mutation of mainloop_capture: the skip counter runs before the sanity check
mainloop_capture_counts_empty ==
    /\ lpc = "capture"
    /\ Len(ticklog) < MaxCaptures
    /\ events' = <<>>
    /\ \E empty \in BOOLEAN :
         /\ rawbuf' = [rawbuf EXCEPT ![idx] = IF empty THEN NoFrame ELSE Captured]
         /\ IF skip < fpsDivisor
              THEN /\ skip' = skip + 1
                   /\ ticklog' = Append(ticklog, IF empty THEN "empty" ELSE "skipped")
                   /\ UNCHANGED lpc
              ELSE IF empty
                     THEN /\ skip' = 1
                          /\ ticklog' = Append(ticklog, "empty")
                          /\ UNCHANGED lpc
                     ELSE /\ skip' = 1
                          /\ ticklog' = Append(ticklog, "processed")
                          /\ lpc' = "crop"
    /\ UNCHANGED <<notLoop, framesize, config, idx, bgframe, curmask, submits,
                   shown, garbled>>

\* main loop: cap.grab(); cap.retrieve(raw[idx]); sanity check; skip counter
mainloop_capture ==
    /\ lpc = "capture"
    /\ Len(ticklog) < MaxCaptures
    /\ events' = <<>>
    /\ \E empty \in BOOLEAN :
         /\ rawbuf' = [rawbuf EXCEPT ![idx] = IF empty THEN NoFrame ELSE Captured]
         /\ IF rawbuf'[idx].rows = 0 \/ rawbuf'[idx].cols = 0
              THEN /\ ticklog' = Append(ticklog, "empty")
                   /\ UNCHANGED <<skip, lpc>>
              ELSE IF skip < fpsDivisor
                     THEN /\ skip' = skip + 1
                          /\ ticklog' = Append(ticklog, "skipped")
                          /\ UNCHANGED lpc
                     ELSE /\ skip' = 1
                          /\ ticklog' = Append(ticklog, "processed")
                          /\ lpc' = "crop"
    /\ UNCHANGED <<notLoop, framesize, config, idx, bgframe, curmask, submits,
                   shown, garbled>>

\* mutation of mainloop_crop_resize: only the width decides on the resize
mainloop_crop_resize_cols ==
    /\ lpc = "crop"
    /\ LET f == rawbuf[idx]
           crop == crop_region.x # 0 \/ crop_region.y # 0
           c == IF crop
                  THEN [f EXCEPT !.cols = crop_region.width, !.rows = crop_region.height]
                  ELSE f
           resize == c.cols # vidGeo[1]
           r == IF resize THEN [c EXCEPT !.cols = vidGeo[1], !.rows = vidGeo[2]] ELSE c
       IN  /\ rawbuf' = [rawbuf EXCEPT ![idx] = [r EXCEPT !.stage = "scaled"]]
           /\ events' = events \o (IF crop THEN <<"crop">> ELSE <<>>)
                               \o (IF resize THEN <<"resize">> ELSE <<>>)
    /\ lpc' = "submit"
    /\ UNCHANGED <<notLoop, framesize, config, skip, idx, bgframe, curmask,
                   ticklog, submits, shown, garbled>>

\* main loop: the crop, if crop_region.x or crop_region.y is not 0; then the
\* resize, if the size is not the virtual camera's
mainloop_crop_resize ==
    /\ lpc = "crop"
    /\ LET f == rawbuf[idx]
           crop == crop_region.x # 0 \/ crop_region.y # 0
           c == IF crop
                  THEN [f EXCEPT !.cols = crop_region.width, !.rows = crop_region.height]
                  ELSE f
           resize == c.cols # vidGeo[1] \/ c.rows # vidGeo[2]
           r == IF resize THEN [c EXCEPT !.cols = vidGeo[1], !.rows = vidGeo[2]] ELSE c
       IN  /\ rawbuf' = [rawbuf EXCEPT ![idx] = [r EXCEPT !.stage = "scaled"]]
           /\ events' = events \o (IF crop THEN <<"crop">> ELSE <<>>)
                               \o (IF resize THEN <<"resize">> ELSE <<>>)
    /\ lpc' = "submit"
    /\ UNCHANGED <<notLoop, framesize, config, skip, idx, bgframe, curmask,
                   ticklog, submits, shown, garbled>>

\* mutation of mainloop_submit: the buffers are exchanged before the call
mainloop_submit_late ==
    /\ lpc = "submit"
    /\ LET other == (idx + 1) % 2
           first == sendPrevious /\ rawbuf[other].cols = 0
       IN  /\ rawbuf' = IF first THEN [rawbuf EXCEPT ![other] = rawbuf[idx]] ELSE rawbuf
           /\ idx' = IF sendPrevious THEN other ELSE idx
           /\ submits' = Append(submits, rawbuf'[idx'])
    /\ events' = Append(events, "submit")
    /\ lpc' = "fetch"
    /\ UNCHANGED <<notLoop, framesize, config, skip, bgframe, curmask, ticklog,
                   shown, garbled>>

\* main loop: the first frame is copied to the other buffer (delayed mode);
\* ai.set_input_frame(raw[idx]); the buffers are exchanged (delayed mode)
mainloop_submit ==
    /\ lpc = "submit"
    /\ LET other == (idx + 1) % 2
           first == sendPrevious /\ rawbuf[other].cols = 0
       IN  /\ rawbuf' = IF first THEN [rawbuf EXCEPT ![other] = rawbuf[idx]] ELSE rawbuf
           /\ submits' = Append(submits, rawbuf[idx])
           /\ idx' = IF sendPrevious THEN other ELSE idx
    /\ events' = Append(events, "submit")
    /\ lpc' = "fetch"
    /\ UNCHANGED <<notLoop, framesize, config, skip, bgframe, curmask, ticklog,
                   shown, garbled>>

\* main loop: ai.get_output_mask(mask), which copies a mask if one is ready
mainloop_fetch ==
    /\ lpc = "fetch"
    /\ \E ready \in BOOLEAN : curmask' = IF ready THEN Len(ticklog) ELSE curmask
    /\ events' = Append(events, "fetch")
    /\ lpc' = "background"
    /\ UNCHANGED <<notLoop, framesize, config, skip, idx, rawbuf, bgframe,
                   ticklog, submits, shown, garbled>>

\* mutation of mainloop_background: raw[idx] is copied whether or not blur is set
mainloop_background_copies ==
    /\ lpc = "background"
    /\ IF pbk
         THEN \E grabbed \in BOOLEAN :
                IF grabbed
                  THEN /\ bgframe' = [src |-> "source", of |-> Len(ticklog),
                                      blurred |-> blur_strength # 0]
                       /\ events' = events \o (IF blur_strength # 0 THEN <<"blur">> ELSE <<>>)
                       /\ lpc' = "blend"
                  ELSE /\ lpc' = "caught"
                       /\ UNCHANGED <<bgframe, events>>
         ELSE /\ bgframe' = [src |-> "copy", of |-> rawbuf[idx].id,
                             blurred |-> blur_strength # 0]
              /\ events' = events \o (IF blur_strength # 0 THEN <<"blur">> ELSE <<>>)
              /\ lpc' = "blend"
    /\ UNCHANGED <<notLoop, framesize, config, skip, idx, rawbuf, curmask,
                   ticklog, submits, shown, garbled>>

\* main loop: the background is the next frame of the source if one is
\* loaded (throw if it cannot be read), else a copy of raw[idx] if blur is
\* set, else what it was; it is blurred unless it is the default green.
\* filterActive is true: only the debug window's keys change it
mainloop_background ==
    /\ lpc = "background"
    /\ IF pbk
         THEN \E grabbed \in BOOLEAN :
                IF grabbed
                  THEN /\ bgframe' = [src |-> "source", of |-> Len(ticklog),
                                      blurred |-> blur_strength # 0]
                       /\ events' = events \o (IF blur_strength # 0 THEN <<"blur">> ELSE <<>>)
                       /\ lpc' = "blend"
                  ELSE /\ lpc' = "caught"
                       /\ UNCHANGED <<bgframe, events>>
         ELSE IF blur_strength # 0
                THEN /\ bgframe' = [src |-> "copy", of |-> rawbuf[idx].id, blurred |-> TRUE]
                     /\ events' = Append(events, "blur")
                     /\ lpc' = "blend"
                ELSE /\ lpc' = "blend"
                     /\ UNCHANGED <<bgframe, events>>
    /\ UNCHANGED <<notLoop, framesize, config, skip, idx, rawbuf, curmask,
                   ticklog, submits, shown, garbled>>

\* main loop: raw[idx] = alpha_blend(bg, raw[idx], mask), whose asserts abort
\* if the sizes differ; flips; raw[idx] = convert_rgb_to_yuyv(raw[idx]);
\* framesize = raw[idx].step[0]*raw[idx].rows
mainloop_blend ==
    /\ lpc = "blend"
    /\ IF rawbuf[idx].cols = vidGeo[1] /\ rawbuf[idx].rows = vidGeo[2]
         THEN /\ shown' = Append(shown, rawbuf[idx])
              /\ rawbuf' = [rawbuf EXCEPT ![idx].stage = "packed"]
              /\ events' = Append(events, "blend")
              /\ framesize' = rawbuf[idx].cols * 2 * rawbuf[idx].rows
              /\ garbled' = FALSE
              /\ lpc' = "write"
         ELSE /\ lpc' = "aborted"
              /\ UNCHANGED <<shown, rawbuf, events, framesize, garbled>>
    /\ UNCHANGED <<notLoop, config, skip, idx, bgframe, curmask, ticklog, submits>>

\* main loop: ret = write(lbfd, raw[idx].data, framesize), which always
\* starts at the first byte of the frame; exit(1) if ret <= 0
mainloop_write ==
    /\ lpc = "write"
    /\ framesize > 0
    /\ \E ret \in -1..framesize :
         IF ret <= 0
           THEN /\ lpc' = "exited"
                /\ UNCHANGED <<framesize, garbled>>
           ELSE /\ garbled' = (garbled \/ framesize # rawbuf[idx].cols * 2 * rawbuf[idx].rows)
                /\ framesize' = framesize - ret
                /\ UNCHANGED lpc
    /\ UNCHANGED <<notLoop, config, skip, idx, rawbuf, bgframe, curmask, ticklog,
                   events, submits, shown>>

\* main loop: the write loop ends; the loop goes round
mainloop_written ==
    /\ lpc = "write"
    /\ framesize = 0
    /\ events' = Append(events, "write")
    /\ lpc' = "capture"
    /\ UNCHANGED <<notLoop, framesize, config, skip, idx, rawbuf, bgframe,
                   curmask, ticklog, submits, shown, garbled>>

LoopNext ==
    \/ mainloop_capture
    \/ mainloop_crop_resize
    \/ mainloop_submit
    \/ mainloop_fetch
    \/ mainloop_background
    \/ mainloop_blend
    \/ mainloop_write
    \/ mainloop_written

LoopSpec == LoopInit /\ [][LoopNext]_vars

(***************************************************************************)
(* Properties                                                              *)
(***************************************************************************)

StrictlyIncreasing(s) == \A i, j \in 1..Len(s) : i < j => s[i] < s[j]

NoDuplicates(s) == \A i, j \in 1..Len(s) : i # j => s[i] # s[j]

\* submitted frames the worker can still come to see: not overwritten while
\* pending and not yet taken by the worker
Pending ==
    {f \in 1..submitted :
        /\ f \notin dropped
        /\ f \notin Range(inferred)
        /\ ~(wpc = "infer_call" /\ frames[frame_current] = f)}

\* the worker is between taking a frame and the end of that loop iteration
InIteration == wpc \in {"infer_run", "lock_mask", "publish", "end_iter"}

\* C1: latest-frame-wins.  A frame overwritten while it was still pending is
\* never inferred; the input mailbox holds at most one pending frame; when
\* the worker takes a pending submission it takes the most recently submitted
\* frame, which it has not inferred before, and it calls inference on the
\* frame it took once in that iteration.
C1_LatestFrameWins ==
    /\ [](\A f \in dropped : f \notin Range(inferred))
    /\ [](Cardinality(Pending) <= 1)
    /\ [](InIteration => /\ inferred # <<>>
                         /\ inferred[Len(inferred)] = frames[frame_current])
    /\ [](state = "RUNNING" => NoDuplicates(inferred))
    /\ [][(wpc = "swap" /\ wpc' = "infer_call" /\ state = "RUNNING")
            => /\ frames'[frame_current'] = submitted
               /\ submitted \notin Range(inferred)
               /\ ~new_frame']_vars

\* C1 witness: a frame was overwritten while pending and its successor was inferred
C1_Witness ==
    \E f \in dropped : f >= 1 /\ f + 1 \in Range(inferred) /\ f \notin Range(inferred)

\* C2: shutdown liveness.  Once the destructor has set DONE while the worker
\* is blocked in the wait, or has tested the flag and is about to block, the
\* worker leaves its loop and the join returns (or the process has exited).
C2_ShutdownLiveness ==
    (state = "DONE" /\ wpc \in {"wait", "waiting"})
        ~> (mpc \in {"dtor_delete", "destroyed"} \/ wpc = "failed")

\* C3: after the worker wakes from the wait with DONE set it touches no
\* frame: it swaps no buffer and starts no inference call.
C3_NoWorkAfterStop ==
    woke_done => wpc \notin {"infer_call", "infer_run", "lock_mask", "publish", "end_iter"}

\* C4: while the worker executes the inference function or is blocked on the
\* condition variable it owns neither mutex, so the orchestrator's next step
\* inside set_input_frame or get_output_mask is enabled.
C4_NeverGated ==
    wpc \in {"infer_run", "waiting"} =>
        /\ lock_frame # "worker"
        /\ lock_mask # "worker"
        /\ (mpc = "idle" /\ submitted < MaxFrames) => ENABLED set_input_frame_lock
        /\ mpc = "submit_locked" => ENABLED set_input_frame
        /\ mpc = "fetch_lock" => ENABLED get_output_mask_lock
        /\ mpc = "fetch_locked" => ENABLED get_output_mask

\* C4 witness: the orchestrator is inside set_input_frame while inference runs
C4_Witness ==
    wpc = "infer_run" /\ mpc = "submit_locked" /\ lock_frame = "main"

\* C5: get_output_mask leaves the caller's buffer unchanged when the ready
\* flag is not set; when it is set the flag stays set until the copy, the
\* buffer becomes a copy of the out slot and the flag is cleared.  The
\* caller's buffer changes in no other way.
C5_FetchMask ==
    /\ [](out = IF fetched = <<>> THEN CallerMask ELSE fetched[Len(fetched)])
    /\ [](mpc \in {"fetch_lock", "fetch_locked"} => new_mask)
    /\ [][(get_output_mask_test /\ ~new_mask)
            => (out' = out /\ mpc' = "idle" /\ ~new_mask')]_vars
    /\ [][(get_output_mask_test /\ new_mask) => mpc' = "fetch_lock"]_vars
    /\ [][(mpc = "fetch_locked" /\ mpc' = "idle")
            => (out' = masks[mask_out] /\ ~new_mask')]_vars

\* C5 witness: a fetch found nothing new after an earlier fetch had succeeded
C5_Witness ==
    /\ last_fetch = "miss"
    /\ fetched # <<>>
    /\ out = fetched[Len(fetched)]
    /\ out # CallerMask

\* C6: every frame inferred was submitted, and the frames inferred have
\* strictly increasing submission indices (none twice, none out of order).
C6_InputOrdering ==
    /\ \A i \in 1..Len(inferred) : inferred[i] \in 1..submitted
    /\ StrictlyIncreasing(inferred)

\* number of inference results swapped into the out slot so far
Published == IF wpc \in {"lock_mask", "publish"} THEN completed - 1 ELSE completed

C8_LocksNeverNested ==
    ~(lock_frame # "free" /\ lock_frame = lock_mask)

\* C8 witness: both mutexes are owned, by different threads
C8_Witness ==
    lock_frame = "main" /\ lock_mask = "worker"

\* C9: every read and write of mailbox state is made by a thread that owns
\* that mailbox's mutex.
C9_AllAccessGuarded ==
    unguarded = {}

\* the frame slot each thread is working on
WorkerFrames == IF wpc = "infer_run" THEN {frame_current} ELSE {}

MainFrames == IF mpc = "submit_locked" THEN {frame_next} ELSE {}

\* the mask slot each thread is working on
WorkerMasks == IF wpc = "infer_run" THEN {mask_current} ELSE {}

MainMasks == IF mpc = "fetch_locked" THEN {mask_out} ELSE {}

\* C10: slot ownership.  frame_current and frame_next are the two distinct
\* frame slots and mask_current and mask_out the two distinct mask slots; the
\* slots the worker uses during inference are never the slot set_input_frame
\* is writing or the slot get_output_mask is reading.
C10_SlotOwnership ==
    /\ {frame_current, frame_next} = Slots
    /\ {mask_current, mask_out} = Slots
    /\ WorkerFrames \cap MainFrames = {}
    /\ WorkerMasks \cap MainMasks = {}

\* C10 witness: get_output_mask copies the out slot while inference writes the other
C10_Witness ==
    /\ wpc = "infer_run"
    /\ mpc = "fetch_locked"
    /\ completed >= 2

\* C11: destruction order.  The inference context is released only after the
\* worker thread has returned from run(); no inference call is in progress
\* when it is released and none is started afterwards.
C11_DestructionOrder ==
    /\ [](mpc = "dtor_delete" => wpc = "exited")
    /\ [](maskctx = "deleted" => wpc = "exited")
    /\ [][maskctx' = "deleted" => (inferred' = inferred /\ wpc' = "exited")]_vars

\* C11 witness: the context is released after the worker ran an inference
C11_Witness ==
    /\ maskctx = "deleted"
    /\ inferred # <<>>
    /\ completed >= 1

\* C12: partial-write retry.  Whatever short counts write() returns, the
\* bytes the device has accepted so far are the first bytes of the frame, in
\* order, each once; so when the loop ends the device has the whole frame.
C12_PartialWriteRetry ==
    ppc = "write" =>
        /\ Len(sent) + framesize = FrameBytes
        /\ sent = SubSeq(FrameData, 1, FrameBytes - framesize)

\* C13: clean unwinding.  Once the device has been opened, the process does
\* not end before the worker (if started) has been joined and the device has
\* been stopped and closed.
C13_CleanUnwinding ==
    (ppc \in {"exited", "returned"} /\ lbfd = Fd) =>
        /\ thread # "running"
        /\ ~streaming
        /\ fdwr = "closed"

\* C14: loopback_free attempts both steps: when it returns, close() has been
\* called and the descriptor is released, whether or not STREAMOFF failed.
C14_FreeBothSteps ==
    ppc = "free_ret" =>
        /\ fdwr = "closed"
        /\ \E i \in 1..Len(syscalls) : \E j \in 1..Len(syscalls) :
             i < j /\ syscalls[i][1] = "STREAMOFF" /\ syscalls[j][1] = "close"

\* the calls loopback_init makes when nothing fails
InitOrder == <<"open", "QUERYCAP", "S_FMT", "STREAMON">>

\* position of the first call named n in the log, 0 if there is none
First(n) ==
    IF \E i \in 1..Len(syscalls) : syscalls[i][1] = n
      THEN CHOOSE i \in 1..Len(syscalls) :
             /\ syscalls[i][1] = n
             /\ \A j \in 1..(i - 1) : syscalls[j][1] # n
      ELSE 0

\* C15: loopback_init calls open, QUERYCAP, S_FMT, STREAMON in that order,
\* each only after the one before succeeded; it returns the descriptor only
\* if all four succeeded; otherwise it returns -1 with the descriptor closed
\* (if it was opened) and the device not streaming.
C15_InitAllOrNothing ==
    /\ \A k \in 2..4 :
         First(InitOrder[k]) # 0 =>
            /\ First(InitOrder[k - 1]) = First(InitOrder[k]) - 1
            /\ syscalls[First(InitOrder[k - 1])][2]
    /\ First("open") \in {0, 1}
    /\ lbfd \in {0, -1, Fd}
    /\ (ppc = "init_ret" /\ lbfd = Fd) =>
            /\ \A k \in 1..4 : syscalls[k] = <<InitOrder[k], TRUE>>
            /\ fdwr = "open"
            /\ streaming
    /\ (ppc = "init_ret" /\ lbfd = -1) =>
            /\ fdwr # "open"
            /\ ~streaming
            /\ \E k \in 1..Len(syscalls) : ~syscalls[k][2]
            /\ fdwr = "closed" <=> syscalls[1][2]
    /\ ppc = "init_ret" => lbfd # 0
    /\ ppc \in {"init_open", "init_querycap", "init_sfmt", "init_streamon"} =>
            /\ lbfd = 0
            /\ ~streaming

\* C15 witness: the format was rejected: -1 is returned, the descriptor is
\* closed and STREAMON was never called
C15_Witness ==
    /\ ppc = "init_ret"
    /\ lbfd = -1
    /\ First("S_FMT") = 3
    /\ ~syscalls[3][2]
    /\ fdwr = "closed"
    /\ First("STREAMON") = 0

\* every sample of the mask has the value v
MaskAll(v) == \A p \in 1..Len(mask) : mask[p] = v

C18_PackChroma_Claimed ==
    yuyv # "none" =>
        /\ Len(yuyv) = 2 * Len(ydata)
        /\ \A k \in 0..(NPairs - 1) :
             /\ yuyv[4 * k + 1] = ydata[2 * k + 1]
             /\ yuyv[4 * k + 2] = (vdata[2 * k + 1] + vdata[2 * k + 2] + 1) \div 2
             /\ yuyv[4 * k + 3] = ydata[2 * k + 2]
             /\ yuyv[4 * k + 4] = (udata[2 * k + 1] + udata[2 * k + 2] + 1) \div 2

\* C18 amended: the same layout, the averages being truncated (rounded down).
C18_PackChroma ==
    yuyv # "none" =>
        /\ Len(yuyv) = 2 * Len(ydata)
        /\ \A k \in 0..(NPairs - 1) :
             /\ yuyv[4 * k + 1] = ydata[2 * k + 1]
             /\ yuyv[4 * k + 2] = (vdata[2 * k + 1] + vdata[2 * k + 2]) \div 2
             /\ yuyv[4 * k + 3] = ydata[2 * k + 2]
             /\ yuyv[4 * k + 4] = (udata[2 * k + 1] + udata[2 * k + 2]) \div 2
             /\ yuyv[4 * k + 2] \in 0..255
             /\ yuyv[4 * k + 4] \in 0..255

\* C18 witness: a packed image with a pair whose chroma values add up to an
\* odd number, where rounding down and rounding half up differ
C18_Witness ==
    /\ yuyv # "none"
    /\ \E k \in 0..(NPairs - 1) :
         /\ (udata[2 * k + 1] + udata[2 * k + 2]) % 2 = 1
         /\ (vdata[2 * k + 1] + vdata[2 * k + 2]) % 2 = 1
         /\ ydata[2 * k + 1] # ydata[2 * k + 2]

\* C19: in every run that reaches the opening of the virtual device, the
\* width of the output geometry is even.
C19_EvenWidth ==
    gpc = "device_open" => vidGeo[1] % 2 = 0

\* C20: no run reaches the opening of the virtual device with an output
\* geometry whose aspect ratio is above 2.726, whether the geometry was
\* given by --vg or derived from the capture geometry.
C20_AspectRejected ==
    gpc = "device_open" => ~Excessive(vidGeo)

\* C24: an inference failure is fatal, with no retry: once the worker has
\* called exit(1) the orchestrator writes nothing more to the device (no byte
\* of a frame, no further frame).
C24_FatalStopsWrites ==
    [][thread = "exiting" => (sent' = sent /\ ticks' = ticks)]_vars

\* a mask computed from frame n or from a later frame is ready in the output
\* mailbox, or has been fetched from it
MaskReadyFor(n) ==
    \/ new_mask /\ masks[mask_out][1] >= n
    \/ \E i \in 1..Len(fetched) : fetched[i][1] >= n

\* C30: mask progress.  While the engine is RUNNING and inference does not
\* fail, after every set_input_frame call a mask computed from that frame or
\* from a later one eventually becomes ready; a get_output_mask call made
\* while such a mask is ready does not miss, and returns a mask of that frame
\* or of a later one.
C30_MaskProgress ==
    /\ \A n \in 1..MaxFrames :
         (submitted >= n) ~> (MaskReadyFor(n) \/ wpc \in {"exiting", "failed"})
    /\ [][(new_mask /\ mpc = "idle" /\ last_fetch # "miss") => last_fetch' # "miss"]_vars
    /\ [][Len(fetched') = Len(fetched) + 1 =>
            \A n \in 1..MaxFrames :
               (new_mask /\ masks[mask_out][1] >= n) => fetched'[Len(fetched')][1] >= n]_vars

\* C30 witness: the worker was blocked in wait() when a frame was submitted,
\* and the mask of the last submitted frame is ready
C30_Witness ==
    /\ state = "RUNNING"
    /\ submitted >= 2
    /\ new_mask
    /\ masks[mask_out][1] = submitted
    /\ Len(inferred) = submitted

\* the least integer not below a / b, for b > 0
Ceil(a, b) == CHOOSE d \in -1..(a + 1) : d * b >= a /\ (d - 1) * b < a

\* the capture ticks that delivered a frame, in order
NonEmptyTicks == SelectSeq(ticklog, LAMBDA t : t # "empty")

\* the numbers of the capture ticks that were processed, in order
ProcessedTicks ==
    SelectSeq([i \in 1..Len(ticklog) |-> i], LAMBDA i : ticklog[i] = "processed")

\* C21: frame-rate throttling.  The divisor is ceil(fps / maxFps), or 1
\* without --max-fps; of every divisor consecutive non-empty ticks exactly one
\* is processed (so divisor - 1 are skipped); a skipped tick submits no frame
\* and writes nothing.  (A divisor below 1 has no such window.)
C21_Throttling ==
    /\ fpsDivisor = IF maxFps > 0 THEN Ceil(fps, maxFps) ELSE 1
    /\ \A i \in 1..Len(NonEmptyTicks) :
         (fpsDivisor >= 1 /\ i + fpsDivisor - 1 <= Len(NonEmptyTicks)) =>
            Cardinality({j \in i..(i + fpsDivisor - 1) :
                            NonEmptyTicks[j] = "processed"}) = 1
    /\ (ticklog # <<>> /\ ticklog[Len(ticklog)] = "skipped") =>
            /\ events = <<>>
            /\ lpc = "capture"
    /\ Len(submits) <= Len(ProcessedTicks)
    /\ Len(shown) <= Len(ProcessedTicks)

\* C21 witness: 60 fps capped to 25: the first tick is processed, two are
\* skipped, the fourth is processed and written
C21_Witness ==
    /\ fps = 60
    /\ maxFps = 25
    /\ fpsDivisor = 3
    /\ ticklog = <<"processed", "skipped", "skipped", "processed">>
    /\ lpc = "capture"
    /\ Len(submits) = 2

\* C22: a tick whose frame is empty changes nothing: not the skip counter,
\* the buffer index, the mailboxes of the engine, main's mask or the
\* background; nothing is submitted, nothing is written, and the loop goes on
\* to the next capture.
C22_EmptyFrameSkipped ==
    [][ticklog' = Append(ticklog, "empty") =>
          /\ skip' = skip
          /\ idx' = idx
          /\ curmask' = curmask
          /\ bgframe' = bgframe
          /\ submits' = submits
          /\ shown' = shown
          /\ events' = <<>>
          /\ UNCHANGED <<engine, device, garbled>>
          /\ lpc' = "capture"]_vars

\* C22 witness: an empty frame arrived when the skip counter had reached the
\* divisor, and the next frame was processed
C22_Witness ==
    /\ fpsDivisor = 3
    /\ ticklog = <<"processed", "skipped", "skipped", "empty">>
    /\ skip = 3
    /\ lpc = "capture"

\* C23: a failure of the background never ends the pipeline: neither a
\* background that cannot be loaded at startup nor a background frame that
\* cannot be read while streaming.
C23_BackgroundNeverFatal ==
    lpc # "caught"

\* C25: the background of a processed frame is the current frame of the
\* loaded source; else, with blur, a copy of the frame about to be blended;
\* else the default green, never modified.  It is blurred iff blur is set and
\* it is not the default green.
C25_BackgroundSelection ==
    /\ lpc = "blend" =>
         /\ pbk => (bgframe.src = "source" /\ bgframe.of = Len(ticklog))
         /\ (~pbk /\ blur_strength # 0) =>
                (bgframe.src = "copy" /\ bgframe.of = rawbuf[idx].id)
         /\ bgframe.blurred <=> (blur_strength # 0 /\ bgframe.src # "green")
    /\ (~pbk /\ blur_strength = 0) => bgframe = Green

\* C25 witness: the background could not be loaded and blur is set: in delayed
\* mode the background is the blurred copy of the previous frame
C25_Witness ==
    /\ lpc = "blend"
    /\ s_backg
    /\ ~pbk
    /\ sendPrevious
    /\ Len(submits) = 2
    /\ bgframe = [src |-> "copy", of |-> submits[1].id, blurred |-> TRUE]

\* C26: delayed mode.  The k-th processed iteration submits the frame it
\* captured and blends the frame captured by the one before (the first
\* blends its own), which is cropped and scaled but neither blended nor
\* packed.  Without delayed mode every iteration blends the frame it
\* submitted and the buffer index stays 0.
C26_DelayedFrame ==
    /\ \A k \in 1..Len(submits) :
         /\ submits[k].id = ProcessedTicks[k]
         /\ submits[k].stage = "scaled"
    /\ \A k \in 1..Len(shown) :
         /\ shown[k].stage = "scaled"
         /\ shown[k].id = IF sendPrevious /\ k >= 2 THEN submits[k - 1].id
                                                   ELSE submits[k].id
    /\ ~sendPrevious => idx = 0

\* C26 witness: three frames were blended in delayed mode, with a skipped or
\* empty tick in between
C26_Witness ==
    /\ sendPrevious
    /\ Len(shown) = 3
    /\ Len(ticklog) = 4
    /\ shown[3].id = submits[2].id
    /\ submits[3].id = 4

\* a rectangle with area that does not cover the whole capture frame
ProperCrop ==
    /\ crop_region.width > 0
    /\ crop_region.height > 0
    /\ (crop_region.width < capGeo[1] \/ crop_region.height < capGeo[2])

\* C27: the crop is applied whenever the crop region is a proper
\* sub-rectangle of the capture frame, also when both its offsets are 0; the
\* resize follows iff the cropped size is not the output geometry.
C27_CropWhenNonEmpty ==
    lpc = "submit" =>
        /\ ProperCrop <=> \E i \in 1..Len(events) : events[i] = "crop"
        /\ (\E i \in 1..Len(events) : events[i] = "resize") <=>
               (IF ProperCrop
                  THEN <<crop_region.width, crop_region.height>> # vidGeo
                  ELSE capGeo # vidGeo)

\* C28: every frame passed to set_input_frame and every frame passed to
\* alpha_blend as foreground has the output geometry, so alpha_blend's
\* asserts on the sizes never fail.
C28_OutputGeometry ==
    /\ \A k \in 1..Len(submits) : <<submits[k].cols, submits[k].rows>> = vidGeo
    /\ \A k \in 1..Len(shown) : <<shown[k].cols, shown[k].rows>> = vidGeo
    /\ lpc # "aborted"

\* C28 witness: in delayed mode, a capture frame of the output's width but
\* not its height was blended one iteration after it was submitted
C28_Witness ==
    /\ capGeo = <<2, 2>>
    /\ vidGeo = <<2, 1>>
    /\ sendPrevious
    /\ Len(shown) = 2
    /\ shown[2].id = submits[1].id

\* the calls of the current tick to the engine and to the device
Protocol == SelectSeq(events, LAMBDA e : e \in {"submit", "fetch", "write"})

\* C29: a processed tick makes one set_input_frame call, then one
\* get_output_mask call, then writes the whole frame, width*height*2 bytes,
\* once, before the next capture, whether or not a mask was ready.
C29_TickProtocol ==
    (lpc = "capture" /\ ticklog # <<>> /\ ticklog[Len(ticklog)] = "processed") =>
        /\ Protocol = <<"submit", "fetch", "write">>
        /\ ~garbled
        /\ framesize = 0

====
